---- MODULE Spec2Model ----
(***************************************************************************)
(* LipiPala speech recognition: the lazy-loading service                   *)
(* (lipipala/core/speech/service.py) called from concurrent request        *)
(* threads, and the eager-loading service                                  *)
(* (lipipala/core/speech_recognition.py) with batch transcription,         *)
(* health and language listing.                                            *)
(*                                                                         *)
(* Numbers: confidence is kept in thousandths (0.95 = 950), durations in   *)
(* milliseconds (10.5 s = 10500).                                          *)
(***************************************************************************)
EXTENDS Integers, Sequences, FiniteSets, TLC

(* ------------------------------ bounds --------------------------------- *)
NumLangs == 2
NumCallers == 2
MaxEnabled == 2
MaxBatch == 3

\* language codes (directory names under models_dir)
CodeNames == <<"as", "bn", "gu", "hi", "kn", "ml">>
Codes == {CodeNames[i] : i \in 1..NumLangs}
Threads == 1..NumCallers

(* ----------------------- the model directory on disk -------------------- *)
\* models_dir/<code>/ : absent, or a directory holding model.pt, config.json
\* or both.
DiskStates == {"nodir", "model_only", "config_only", "both"}

HasDir(s) == s # "nodir"
HasModelPt(s) == s \in {"model_only", "both"}
HasConfigJson(s) == s \in {"config_only", "both"}

\* audio files handed to transcribe
LazyPaths == {"valid.wav", "missing.wav"}
NoPath == ""

VARIABLES
    disk,                  \* [Codes -> DiskStates]: models_dir/<code>
    modelsDirExists,       \* config.models_dir.exists()
    \* ---- lazy service (core/speech/service.py) ----
    _models,               \* self._models: code -> model object
    _available_languages,  \* self._available_languages (as a set)
    pc,                    \* per request thread: position in _load_model
    call,                  \* per request thread: [op, lang, path]
    result,                \* per request thread: what the call returned/raised
    finished,              \* per code: some call for it has returned
    inWave,                \* per thread: the call started before any call for
                           \* its language returned, with the language uncached
    waveRuns,              \* per code: loader-body runs by first-wave calls
    waveWrites,            \* per code: cache writes by first-wave calls
    \* ---- eager service (core/speech_recognition.py) ----
    initThrows,            \* codes whose config.json/model.pt make the
                           \* ASRModel initialisation throw
    enabled_languages,     \* config['enabled_languages']
    metaFile,              \* the file at config['languages_metadata_path']
    languages_metadata,    \* self.languages_metadata
    models,                \* self.models, a dict in insertion order
    ephase,                \* where the constructor is; "ready" once built
    candidates,            \* _load_models: the list the for loop walks
    idx,                   \* _load_models: position of the for loop
    loaded_ok,             \* codes whose load reached line 113
    eres                   \* the last facade call and what it gave

lazyVars == <<_models, _available_languages, pc, call, result,
              finished, inWave, waveRuns, waveWrites>>
diskVars == <<disk, modelsDirExists>>
eagerVars == <<initThrows, enabled_languages, metaFile, languages_metadata,
               models, ephase, candidates, idx, loaded_ok, eres>>
vars == <<disk, modelsDirExists, _models, _available_languages, pc, call,
          result, finished, inWave, waveRuns, waveWrites,
          initThrows, enabled_languages, metaFile, languages_metadata,
          models, ephase, candidates, idx, loaded_ok, eres>>

(* ------------------------------ values --------------------------------- *)
NoModel == [type |-> "none", lang |-> ""]
NoValue == [language |-> "", text |-> "", confidence |-> 0, audio_duration |-> 0]
NoResult ==
    [kind |-> "none", detail |-> "", model |-> NoModel, value |-> NoValue,
     languages |-> {}]
NoCall == [op |-> "none", lang |-> "", path |-> NoPath]

Raise(kind, detail) ==
    [kind |-> kind, detail |-> detail, model |-> NoModel, value |-> NoValue,
     languages |-> {}]
ReturnModel(m) ==
    [kind |-> "ok", detail |-> "", model |-> m, value |-> NoValue, languages |-> {}]
ReturnValue(v) ==
    [kind |-> "ok", detail |-> "", model |-> NoModel, value |-> v, languages |-> {}]
ReturnLanguages(ls) ==
    [kind |-> "ok", detail |-> "", model |-> NoModel, value |-> NoValue,
     languages |-> ls]

IsFailure(r) ==
    r.kind \in {"LanguageNotSupportedError", "ModelLoadError", "AudioProcessingError"}

\* service.py:55  model = {"type": "dummy_model", "lang": lang_code}
DummyModel(lang_code) == [type |-> "dummy_model", lang |-> lang_code]

\* a model object that has an eval() method
ModelEvalRaises_real(model) == FALSE
\* service.py:56  model.eval(): the object built on line 55 is a dict, and a
\* dict has no attribute 'eval', so the call raises AttributeError.
ModelEvalRaises(model) == model.type = "dummy_model"

\* service.py:75-88  the dict transcribe returns
LazyTranscription(language) ==
    [language |-> language, text |-> "dummy transcription",
     confidence |-> 950, audio_duration |-> 10500]

(* --------------------------- lazy service ------------------------------ *)
\* service.py:27-33
FindAvailableLanguages(d, dirExists) ==
    IF ~dirExists THEN {} ELSE {c \in Codes : HasDir(d[c])}

InitDisk ==
    /\ disk \in [Codes -> DiskStates]
    /\ modelsDirExists \in BOOLEAN
    /\ ~modelsDirExists => \A c \in Codes : disk[c] = "nodir"

\* the eager service is not constructed
NoEager ==
    /\ initThrows = {}
    /\ enabled_languages = <<>>
    /\ metaFile = [kind |-> "missing", entries |-> [c \in Codes |-> "absent"]]
    /\ languages_metadata = [shape |-> "dict", entries |-> [c \in Codes |-> "absent"]]
    /\ models = <<>>
    /\ ephase = "none"
    /\ candidates = <<>>
    /\ idx = 1
    /\ loaded_ok = {}
    /\ eres = [op |-> "none"]

\* service.py:22-25: the state after SpeechRecognitionService(config)
InitLazy ==
    /\ InitDisk
    /\ NoEager
    /\ _models = <<>>
    /\ _available_languages = FindAvailableLanguages(disk, modelsDirExists)
    /\ pc = [t \in Threads |-> "idle"]
    /\ call = [t \in Threads |-> NoCall]
    /\ result = [t \in Threads |-> NoResult]
    /\ finished = [c \in Codes |-> FALSE]
    /\ inWave = [t \in Threads |-> FALSE]
    /\ waveRuns = [c \in Codes |-> 0]
    /\ waveWrites = [c \in Codes |-> 0]

InProgress(t) == pc[t] \in {"l37", "l40", "l44", "try"}

\* A request thread enters _load_model(lang), directly (resolve) or through
\* transcribe(path, lang) (service.py:67).
Call(t, op, lang, path) ==
    /\ pc[t] = "idle"
    /\ pc' = [pc EXCEPT ![t] = "l37"]
    /\ call' = [call EXCEPT ![t] = [op |-> op, lang |-> lang, path |-> path]]
    /\ inWave' = [inWave EXCEPT ![t] = ~finished[lang] /\ lang \notin DOMAIN _models]
    /\ UNCHANGED <<_models, _available_languages, result, finished,
                   waveRuns, waveWrites, diskVars, eagerVars>>

\* What the caller of _load_model gets once the model is in hand:
\* resolve returns it; transcribe runs service.py:69-88, which reads no state.
Finish(t, model) ==
    IF call[t].op = "transcribe"
    THEN ReturnValue(LazyTranscription(call[t].lang))
    ELSE ReturnModel(model)

\* transcribe with the call of line 67 moved inside the try block of line 69:
\* whatever _load_model raises leaves transcribe as AudioProcessingError
Complete_insideTry(t, r) ==
    /\ pc' = [pc EXCEPT ![t] = "done"]
    /\ result' = [result EXCEPT ![t] =
                     IF call[t].op = "transcribe" /\ IsFailure(r)
                     THEN Raise("AudioProcessingError", r.detail)
                     ELSE r]
    /\ finished' = [finished EXCEPT ![call[t].lang] = TRUE]

\* the call ends: a return value or an exception reaches the caller
\* (service.py:38,42,47,59,63 for resolve; line 67 lets them pass through
\* transcribe)
Complete(t, r) ==
    /\ pc' = [pc EXCEPT ![t] = "done"]
    /\ result' = [result EXCEPT ![t] = r]
    /\ finished' = [finished EXCEPT ![call[t].lang] = TRUE]

\* the cache looked up with a get-or-create: a language that is not cached
\* gets its entry before the checks of lines 40-47 are made
CheckCache_getOrCreate(t) ==
    /\ pc[t] = "l37"
    /\ IF call[t].lang \in DOMAIN _models
       THEN /\ Complete(t, Finish(t, _models[call[t].lang]))
            /\ UNCHANGED _models
       ELSE /\ _models' = (call[t].lang :> DummyModel(call[t].lang)) @@ _models
            /\ pc' = [pc EXCEPT ![t] = "l40"]
            /\ UNCHANGED <<result, finished>>
    /\ UNCHANGED <<_available_languages, call, inWave,
                   waveRuns, waveWrites, diskVars, eagerVars>>

\* service.py:37-38
CheckCache(t) ==
    /\ pc[t] = "l37"
    /\ IF call[t].lang \in DOMAIN _models
       THEN Complete(t, Finish(t, _models[call[t].lang]))
       ELSE /\ pc' = [pc EXCEPT ![t] = "l40"]
            /\ UNCHANGED <<result, finished>>
    /\ UNCHANGED <<_models, _available_languages, call, inWave,
                   waveRuns, waveWrites, diskVars, eagerVars>>

\* the availability check done against a fresh scan of models_dir instead of
\* the list built at construction
CheckAvailable_rescan(t) ==
    /\ pc[t] = "l40"
    /\ IF call[t].lang \notin FindAvailableLanguages(disk, modelsDirExists)
       THEN Complete(t, Raise("LanguageNotSupportedError", "not supported"))
       ELSE /\ pc' = [pc EXCEPT ![t] = "l44"]
            /\ UNCHANGED <<result, finished>>
    /\ UNCHANGED <<_models, _available_languages, call, inWave,
                   waveRuns, waveWrites, diskVars, eagerVars>>

\* service.py:40-42
CheckAvailable(t) ==
    /\ pc[t] = "l40"
    /\ IF call[t].lang \notin _available_languages
       THEN Complete(t, Raise("LanguageNotSupportedError", "not supported"))
       ELSE /\ pc' = [pc EXCEPT ![t] = "l44"]
            /\ UNCHANGED <<result, finished>>
    /\ UNCHANGED <<_models, _available_languages, call, inWave,
                   waveRuns, waveWrites, diskVars, eagerVars>>

\* service.py:44-47: the loader body starts; only model.pt is looked for
CheckModelPath(t) ==
    /\ pc[t] = "l44"
    /\ waveRuns' = [waveRuns EXCEPT ![call[t].lang] = @ + (IF inWave[t] THEN 1 ELSE 0)]
    /\ IF ~HasModelPt(disk[call[t].lang])
       THEN Complete(t, Raise("ModelLoadError", "model file not found"))
       ELSE /\ pc' = [pc EXCEPT ![t] = "try"]
            /\ UNCHANGED <<result, finished>>
    /\ UNCHANGED <<_models, _available_languages, call, inWave,
                   waveWrites, diskVars, eagerVars>>

\* the loading code with lines 56 and 57 swapped: the model is stored before
\* model.eval() is called
TryLoad_storeFirst(t) ==
    /\ pc[t] = "try"
    /\ LET lang == call[t].lang
           model == DummyModel(lang)
       IN /\ _models' = (lang :> model) @@ _models
          /\ waveWrites' = [waveWrites EXCEPT ![lang] = @ + (IF inWave[t] THEN 1 ELSE 0)]
          /\ IF ModelEvalRaises(model)
             THEN Complete(t, Raise("ModelLoadError", "could not load"))
             ELSE Complete(t, Finish(t, model))
    /\ UNCHANGED <<_available_languages, call, inWave, waveRuns, diskVars, eagerVars>>

\* service.py:49-63: build the model, model.eval(), store it, return it;
\* any exception becomes ModelLoadError
TryLoad(t) ==
    /\ pc[t] = "try"
    /\ LET lang == call[t].lang
           model == DummyModel(lang)
       IN IF ModelEvalRaises(model)
          THEN /\ Complete(t, Raise("ModelLoadError", "could not load"))
               /\ UNCHANGED <<_models, waveWrites>>
          ELSE /\ _models' = (lang :> model) @@ _models
               /\ waveWrites' = [waveWrites EXCEPT ![lang] = @ + (IF inWave[t] THEN 1 ELSE 0)]
               /\ Complete(t, Finish(t, model))
    /\ UNCHANGED <<_available_languages, call, inWave, waveRuns, diskVars, eagerVars>>

\* get_supported_languages that lists models_dir again and keeps what it
\* finds as the new list
LazyGetSupportedLanguages_rescan(t) ==
    /\ pc[t] = "idle"
    /\ _available_languages' = FindAvailableLanguages(disk, modelsDirExists)
    /\ pc' = [pc EXCEPT ![t] = "done"]
    /\ call' = [call EXCEPT ![t] = [op |-> "get_supported_languages",
                                    lang |-> "", path |-> NoPath]]
    /\ result' = [result EXCEPT ![t] = ReturnLanguages(_available_languages')]
    /\ UNCHANGED <<_models, finished, inWave, waveRuns, waveWrites,
                   diskVars, eagerVars>>

\* service.py:90-92
LazyGetSupportedLanguages(t) ==
    /\ pc[t] = "idle"
    /\ pc' = [pc EXCEPT ![t] = "done"]
    /\ call' = [call EXCEPT ![t] = [op |-> "get_supported_languages",
                                    lang |-> "", path |-> NoPath]]
    /\ result' = [result EXCEPT ![t] = ReturnLanguages(_available_languages)]
    /\ UNCHANGED <<_models, _available_languages, finished, inWave,
                   waveRuns, waveWrites, diskVars, eagerVars>>

\* the caller has its answer; the thread serves the next request
Return(t) ==
    /\ pc[t] = "done"
    /\ pc' = [pc EXCEPT ![t] = "idle"]
    /\ call' = [call EXCEPT ![t] = NoCall]
    /\ result' = [result EXCEPT ![t] = NoResult]
    /\ inWave' = [inWave EXCEPT ![t] = FALSE]
    /\ UNCHANGED <<_models, _available_languages, finished,
                   waveRuns, waveWrites, diskVars, eagerVars>>

(* ----------------------- the disk changes under the service ------------ *)
EnvSetDisk(c, s) ==
    /\ modelsDirExists
    /\ disk[c] # s
    /\ disk' = [disk EXCEPT ![c] = s]
    /\ UNCHANGED <<modelsDirExists, lazyVars, eagerVars>>

EnvRemoveModelsDir ==
    /\ modelsDirExists
    /\ modelsDirExists' = FALSE
    /\ disk' = [c \in Codes |-> "nodir"]
    /\ UNCHANGED <<lazyVars, eagerVars>>

EnvCreateModelsDir ==
    /\ ~modelsDirExists
    /\ modelsDirExists' = TRUE
    /\ UNCHANGED <<disk, lazyVars, eagerVars>>

NextLazy ==
    \/ \E t \in Threads, lang \in Codes : Call(t, "resolve", lang, NoPath)
    \/ \E t \in Threads, lang \in Codes, path \in LazyPaths :
           Call(t, "transcribe", lang, path)
    \/ \E t \in Threads : CheckCache(t)
    \/ \E t \in Threads : CheckAvailable(t)
    \/ \E t \in Threads : CheckModelPath(t)
    \/ \E t \in Threads : TryLoad(t)
    \/ \E t \in Threads : LazyGetSupportedLanguages(t)
    \/ \E t \in Threads : Return(t)
    \/ \E c \in Codes, s \in DiskStates : EnvSetDisk(c, s)
    \/ EnvRemoveModelsDir
    \/ EnvCreateModelsDir

SpecLazy == InitLazy /\ [][NextLazy]_vars


(* --------------------------- eager service ----------------------------- *)
\* Python dict kept as a sequence of <<key, value>> pairs in insertion order
DictKeys(d) == [i \in 1..Len(d) |-> d[i][1]]
DictHas(d, k) == \E i \in 1..Len(d) : d[i][1] = k
\* d[k] = v : a key already present keeps its place
DictPut(d, k, v) ==
    IF DictHas(d, k)
    THEN [i \in 1..Len(d) |-> IF d[i][1] = k THEN <<k, v>> ELSE d[i]]
    ELSE Append(d, <<k, v>>)

SeqRange(q) == {q[i] : i \in 1..Len(q)}
SeqsUpTo(S, n) == UNION {[1..k -> S] : k \in 0..n}
\* the orders iterdir() can list a set of directories in
Orderings(S) ==
    {q \in [1..Cardinality(S) -> S] : \A i, j \in 1..Cardinality(S) : i # j => q[i] # q[j]}

\* metadata.json: missing, not JSON, a JSON number (len() of it raises), a
\* JSON array, or a JSON object whose value for a code is absent, an object
\* with all five fields ("full"), an object with name and family only
\* ("partial"), or not an object ("nondict", e.g. a string).
EntryKinds == {"absent", "partial", "full", "nondict"}
NoEntries == [c \in Codes |-> "absent"]
MetaObjects ==
    {[c \in Codes |-> IF c = d THEN k ELSE "full"] : d \in Codes, k \in EntryKinds}
    \cup {NoEntries}
MetaFiles ==
    {[kind |-> k, entries |-> NoEntries] : k \in {"missing", "unparsable", "number", "array"}}
    \cup {[kind |-> "object", entries |-> e] : e \in MetaObjects}

\* the fields an entry of the metadata object holds
EntryFields(kind) ==
    CASE kind = "full" ->
            [name |-> "display name", family |-> "Tibeto-Burman", script |-> "Bengali",
             endangerment_level |-> "vulnerable", regions |-> <<"Assam">>]
      [] kind = "partial" -> [name |-> "display name", family |-> "Tibeto-Burman"]
      [] OTHER -> <<>>

\* _load_languages_metadata without the try/except of lines 73-81: a file
\* that is not JSON makes json.load raise out of the constructor and no
\* mapping is ever assigned
LoadLanguagesMetadata_noCatch(file) ==
    CASE file.kind = "missing" -> [shape |-> "dict", entries |-> NoEntries]
      [] file.kind = "unparsable" -> [shape |-> "unassigned", entries |-> NoEntries]
      [] file.kind = "number" -> [shape |-> "unassigned", entries |-> NoEntries]
      [] file.kind = "array" -> [shape |-> "list", entries |-> NoEntries]
      [] OTHER -> [shape |-> "dict", entries |-> file.entries]

\* speech_recognition.py:58-81
LoadLanguagesMetadata(file) ==
    CASE file.kind = "missing" -> [shape |-> "dict", entries |-> NoEntries]     \* 68-71
      [] file.kind = "unparsable" -> [shape |-> "dict", entries |-> NoEntries]  \* 79-81
      [] file.kind = "number" -> [shape |-> "dict", entries |-> NoEntries]      \* 77, 79-81
      [] file.kind = "array" -> [shape |-> "list", entries |-> NoEntries]       \* 75-78
      [] OTHER -> [shape |-> "dict", entries |-> file.entries]                  \* 75-78

\* self.languages_metadata.get(lang_code, {}).get(field, default) raises
\* AttributeError when the metadata is a list or the entry is not a dict
MetaGetRaises(meta, lang_code) ==
    meta.shape # "dict" \/ meta.entries[lang_code] = "nondict"
MetaGet(meta, lang_code, field, default) ==
    LET e == EntryFields(meta.entries[lang_code])
    IN IF field \in DOMAIN e THEN e[field] ELSE default

\* models_dir/<code> holds both files and they initialise
Loadable(c) == HasModelPt(disk[c]) /\ HasConfigJson(disk[c]) /\ c \notin initThrows

ASRModel(lang_code) == [type |-> "ASRModel", lang |-> lang_code]

NoLazy ==
    /\ _models = <<>>
    /\ _available_languages = {}
    /\ pc = [t \in Threads |-> "idle"]
    /\ call = [t \in Threads |-> NoCall]
    /\ result = [t \in Threads |-> NoResult]
    /\ finished = [c \in Codes |-> FALSE]
    /\ inWave = [t \in Threads |-> FALSE]
    /\ waveRuns = [c \in Codes |-> 0]
    /\ waveWrites = [c \in Codes |-> 0]

\* speech_recognition.py:40-47: the constructor has set self.models = {}
InitEagerWith(files, enabledLists, dirStates) ==
    /\ InitDisk
    /\ \A c \in Codes : disk[c] \in dirStates
    /\ NoLazy
    /\ initThrows \in SUBSET {c \in Codes : disk[c] = "both"}
    /\ enabled_languages \in enabledLists
    /\ metaFile \in files
    /\ languages_metadata = [shape |-> "dict", entries |-> NoEntries]
    /\ models = <<>>
    /\ ephase = "metadata"
    /\ candidates = <<>>
    /\ idx = 1
    /\ loaded_ok = {}
    /\ eres = [op |-> "none"]

InitEager == InitEagerWith(MetaFiles, SeqsUpTo(Codes, MaxEnabled), DiskStates)

\* speech_recognition.py:50
LoadMetadataStep ==
    /\ ephase = "metadata"
    /\ languages_metadata' = LoadLanguagesMetadata(metaFile)
    /\ ephase' = "load_models"
    /\ UNCHANGED <<initThrows, enabled_languages, metaFile, models, candidates,
                   idx, loaded_ok, eres, diskVars, lazyVars>>

\* speech_recognition.py:85-91: the list the loop walks
LoadModelsStart ==
    /\ ephase = "load_models"
    /\ \E order \in Orderings({c \in Codes : HasDir(disk[c])}) :
          candidates' = IF enabled_languages = <<>> /\ modelsDirExists
                        THEN order
                        ELSE enabled_languages
    /\ idx' = 1
    /\ ephase' = IF candidates' = <<>> THEN "ready" ELSE "loop"
    /\ UNCHANGED <<initThrows, enabled_languages, metaFile, languages_metadata,
                   models, loaded_ok, eres, diskVars, lazyVars>>

\* speech_recognition.py:116-118 (and the continue of line 101): where the
\* loop goes after a language that did not load
LoopAfterFailure_abort(i, n) == n + 1
LoopAfterFailure(i, n) == i + 1

\* the loop with the file test of the lazy service: only model.pt is looked
\* for, config.json is not
LoadModelStep_modelOnly ==
    /\ ephase = "loop"
    /\ LET lang_code == candidates[idx]
           n == Len(candidates)
       IN /\ IF ~HasModelPt(disk[lang_code])
             THEN /\ idx' = LoopAfterFailure(idx, n)
                  /\ UNCHANGED <<models, loaded_ok>>
             ELSE IF lang_code \in initThrows
             THEN /\ idx' = LoopAfterFailure(idx, n)
                  /\ UNCHANGED <<models, loaded_ok>>
             ELSE /\ models' = DictPut(models, lang_code, ASRModel(lang_code))
                  /\ loaded_ok' = loaded_ok \cup {lang_code}
                  /\ idx' = idx + 1
          /\ ephase' = IF idx' > n THEN "ready" ELSE "loop"
    /\ UNCHANGED <<initThrows, enabled_languages, metaFile, languages_metadata,
                   candidates, eres, diskVars, lazyVars>>

\* speech_recognition.py:93-118: one turn of the for loop
LoadModelStep ==
    /\ ephase = "loop"
    /\ LET lang_code == candidates[idx]
           n == Len(candidates)
       IN /\ IF ~HasModelPt(disk[lang_code]) \/ ~HasConfigJson(disk[lang_code])
             THEN /\ idx' = LoopAfterFailure(idx, n)                   \* 98-101
                  /\ UNCHANGED <<models, loaded_ok>>
             ELSE IF lang_code \in initThrows
             THEN /\ idx' = LoopAfterFailure(idx, n)                   \* 116-118
                  /\ UNCHANGED <<models, loaded_ok>>
             ELSE /\ models' = DictPut(models, lang_code, ASRModel(lang_code))  \* 113
                  /\ loaded_ok' = loaded_ok \cup {lang_code}
                  /\ idx' = idx + 1
          /\ ephase' = IF idx' > n THEN "ready" ELSE "loop"            \* 55-56
    /\ UNCHANGED <<initThrows, enabled_languages, metaFile, languages_metadata,
                   candidates, eres, diskVars, lazyVars>>

\* speech_recognition.py:129-138: the entry of one loaded language
LangInfo(meta, lang_code) ==
    [code |-> lang_code,
     name |-> MetaGet(meta, lang_code, "name", lang_code),
     family |-> MetaGet(meta, lang_code, "family", "Unknown"),
     script |-> MetaGet(meta, lang_code, "script", "Unknown"),
     endangerment_level |-> MetaGet(meta, lang_code, "endangerment_level", "Unknown"),
     regions |-> MetaGet(meta, lang_code, "regions", <<>>)]

\* speech_recognition.py:120-140
GetSupportedLanguages(ms, meta) ==
    IF \E i \in 1..Len(ms) : MetaGetRaises(meta, ms[i][1])
    THEN [kind |-> "AttributeError", value |-> <<>>]
    ELSE [kind |-> "ok", value |-> [i \in 1..Len(ms) |-> LangInfo(meta, ms[i][1])]]

\* speech_recognition.py:237-245
IsHealthy_two(ms) == Len(ms) > 1
IsHealthy(ms) == Len(ms) > 0

\* speech_recognition.py:43 sample_rate default
SampleRate == 16000
\* speech_recognition.py:44 n_mels default
NMels == 80

\* speech_recognition.py:247-261
GetStats(ms) ==
    [models_loaded |-> Len(ms),
     supported_languages |-> DictKeys(ms),
     preprocessor_config |-> [sample_rate |-> SampleRate, n_mels |-> NMels]]

\* the service is built and no facade call is under way
EagerIdle == ephase = "ready" /\ eres.op = "none"

\* the caller has taken the answer of the last facade call
TakeResult ==
    /\ ephase = "ready"
    /\ eres.op # "none"
    /\ eres' = [op |-> "none"]
    /\ UNCHANGED <<initThrows, enabled_languages, metaFile, languages_metadata,
                   models, ephase, candidates, idx, loaded_ok, diskVars, lazyVars>>

CallGetSupportedLanguages ==
    /\ EagerIdle
    /\ eres' = [op |-> "get_supported_languages",
                out |-> GetSupportedLanguages(models, languages_metadata)]
    /\ UNCHANGED <<initThrows, enabled_languages, metaFile, languages_metadata,
                   models, ephase, candidates, idx, loaded_ok, diskVars, lazyVars>>

CallIsHealthy ==
    /\ EagerIdle
    /\ eres' = [op |-> "is_healthy", out |-> [kind |-> "ok", value |-> IsHealthy(models)]]
    /\ UNCHANGED <<initThrows, enabled_languages, metaFile, languages_metadata,
                   models, ephase, candidates, idx, loaded_ok, diskVars, lazyVars>>

CallGetStats ==
    /\ EagerIdle
    /\ eres' = [op |-> "get_stats", out |-> [kind |-> "ok", value |-> GetStats(models)]]
    /\ UNCHANGED <<initThrows, enabled_languages, metaFile, languages_metadata,
                   models, ephase, candidates, idx, loaded_ok, diskVars, lazyVars>>

NextEager ==
    \/ LoadMetadataStep
    \/ LoadModelsStart
    \/ LoadModelStep
    \/ CallGetSupportedLanguages
    \/ CallIsHealthy
    \/ CallGetStats
    \/ TakeResult

SpecEager == InitEager /\ [][NextEager]_vars


(* ------------------- eager service: transcription ---------------------- *)
\* the audio files of the requests, named after what is wrong with them:
\* missing.wav does not exist, corrupt.wav cannot be decoded by librosa,
\* empty.wav has no samples (the preprocessor rejects it), crash.wav makes
\* the model's forward pass throw
AudioPaths == {"valid.wav", "missing.wav", "corrupt.wav", "empty.wav", "crash.wav"}
\* the files the batches are made of
BatchPaths == {"valid.wav", "missing.wav", "crash.wav"}

\* samples librosa.load yields for valid.wav (2 s at 16 kHz)
ValidSamples == 32000
\* the scores model(input_features) gives for valid.wav, one row per
\* language code in the order of CodeNames
OutputScores ==
    <<<<0, 3, 1>>, <<2, 2, 2>>, <<5, 0, 0>>, <<1, 0, 0>>, <<0, 0, 4>>, <<3, 3, 0>>>>
ModelOutputs(language) ==
    OutputScores[CHOOSE i \in 1..Len(CodeNames) : CodeNames[i] = language]

RECURSIVE Exp2(_)
Exp2(n) == IF n = 0 THEN 1 ELSE 2 * Exp2(n - 1)
RECURSIVE SumExp2(_)
SumExp2(q) == IF q = <<>> THEN 0 ELSE Exp2(Head(q)) + SumExp2(Tail(q))
SeqMax(q) == CHOOSE x \in SeqRange(q) : \A y \in SeqRange(q) : y <= x

\* the largest raw score taken as the confidence, with no softmax
Confidence_rawMax(outputs) == 1000 * SeqMax(outputs)
\* speech_recognition.py:182  float(outputs.softmax(dim=-1).max().item()),
\* in thousandths; the softmax is taken to base 2
Confidence(outputs) == (1000 * Exp2(SeqMax(outputs))) \div SumExp2(outputs)

ERaise(kind, detail) == [kind |-> kind, detail |-> detail, value |-> <<>>]

\* speech_recognition.py:142-208
Transcribe(audio_path, language, ms, meta) ==
    IF ~DictHas(ms, language)                                         \* 153-155
    THEN ERaise("ValueError", "language is not supported for transcription")
    ELSE IF audio_path = "missing.wav"                                \* 198-199, 161-163
    THEN ERaise("FileNotFoundError", "audio file not found")
    ELSE IF audio_path = "corrupt.wav"                                \* 202-203, 161-163
    THEN ERaise("LibrosaError", "cannot decode audio")
    ELSE IF audio_path = "empty.wav"                                  \* 160-163
    THEN ERaise("PreprocessError", "input too short")
    ELSE IF audio_path = "crash.wav"                                  \* 168-172
    THEN ERaise("RuntimeError", "forward pass failed")
    ELSE IF MetaGetRaises(meta, language)                             \* 175-176
    THEN ERaise("AttributeError", "object has no attribute 'get'")
    ELSE [kind |-> "ok", detail |-> "",                               \* 178-184
          value |-> [language |-> language,
                     language_name |-> MetaGet(meta, language, "name", language),
                     text |-> "transcription",
                     confidence |-> Confidence(ModelOutputs(language)),
                     audio_duration |-> (ValidSamples * 1000) \div SampleRate]]

\* speech_recognition.py:224-233: one turn of the batch loop
BatchItem(audio_path, language, ms, meta) ==
    LET r == Transcribe(audio_path, language, ms, meta)
    IN IF r.kind = "ok"
       THEN r.value
       ELSE [language |-> language, error |-> r.detail, audio_path |-> audio_path]

\* a batch loop without the try/except: the first failure ends the batch
RECURSIVE BatchLoop_abort(_, _, _, _, _)
BatchLoop_abort(results, audio_paths, language, ms, meta) ==
    IF audio_paths = <<>>
    THEN results
    ELSE IF Transcribe(Head(audio_paths), language, ms, meta).kind # "ok"
    THEN Append(results, BatchItem(Head(audio_paths), language, ms, meta))
    ELSE BatchLoop_abort(Append(results, BatchItem(Head(audio_paths), language, ms, meta)),
                         Tail(audio_paths), language, ms, meta)

\* speech_recognition.py:221-235
RECURSIVE BatchLoop(_, _, _, _, _)
BatchLoop(results, audio_paths, language, ms, meta) ==
    IF audio_paths = <<>>
    THEN results
    ELSE BatchLoop(Append(results, BatchItem(Head(audio_paths), language, ms, meta)),
                   Tail(audio_paths), language, ms, meta)

\* speech_recognition.py:210-235
BatchTranscribe(audio_paths, language, ms, meta) ==
    [kind |-> "ok", detail |-> "", value |-> BatchLoop(<<>>, audio_paths, language, ms, meta)]

CallTranscribe(audio_path, language) ==
    /\ EagerIdle
    /\ eres' = [op |-> "transcribe", audio_path |-> audio_path, language |-> language,
                out |-> Transcribe(audio_path, language, models, languages_metadata)]
    /\ UNCHANGED <<initThrows, enabled_languages, metaFile, languages_metadata,
                   models, ephase, candidates, idx, loaded_ok, diskVars, lazyVars>>

CallBatchTranscribe(audio_paths, language) ==
    /\ EagerIdle
    /\ eres' = [op |-> "batch_transcribe", audio_paths |-> audio_paths, language |-> language,
                out |-> BatchTranscribe(audio_paths, language, models, languages_metadata)]
    /\ UNCHANGED <<initThrows, enabled_languages, metaFile, languages_metadata,
                   models, ephase, candidates, idx, loaded_ok, diskVars, lazyVars>>

\* the transcription runs: every language directory is a candidate and
\* holds both files, the metadata file is missing, an array, or complete
BatchMetaFiles ==
    {f \in MetaFiles : f.kind \in {"missing", "array"}}
    \cup {[kind |-> "object", entries |-> [c \in Codes |-> "full"]]}

InitBatch == InitEagerWith(BatchMetaFiles, {<<>>}, {"nodir", "both"})

NextBatch ==
    \/ LoadMetadataStep
    \/ LoadModelsStart
    \/ LoadModelStep
    \/ \E p \in AudioPaths, l \in Codes : CallTranscribe(p, l)
    \/ \E ps \in SeqsUpTo(BatchPaths, MaxBatch), l \in Codes : CallBatchTranscribe(ps, l)
    \/ CallGetSupportedLanguages
    \/ CallIsHealthy
    \/ CallGetStats
    \/ TakeResult

SpecBatch == InitBatch /\ [][NextBatch]_vars


(* ============================= the claims ============================== *)

\* every first-wave call for language L has returned
WaveDone(L) ==
    /\ finished[L]
    /\ ~\E t \in Threads : inWave[t] /\ call[t].lang = L /\ InProgress(t)

\* C1: for a discovered language, once the callers that started resolve(L)
\* together (before any of them returned, L not cached) have all returned,
\* the loader body has run exactly once for L and the cache has been written
\* for L once (not at all when that one load failed).
C1_LoaderRunsOnce ==
    \A L \in _available_languages :
        WaveDone(L) =>
            /\ waveRuns[L] = 1
            /\ waveWrites[L] = (IF L \in DOMAIN _models THEN 1 ELSE 0)

\* C2: two overlapping resolve(L) calls for a language that was not cached
\* get the same outcome: the same error, or the handle the cache holds.
C2_OverlappingCallsAgree ==
    \A t, u \in Threads :
        ( /\ t # u
          /\ pc[t] = "done" /\ pc[u] = "done"
          /\ inWave[t] /\ inWave[u]
          /\ call[t].lang = call[u].lang
          /\ call[t].op = "resolve" /\ call[u].op = "resolve" )
        => /\ result[t] = result[u]
           /\ result[t].kind = "ok" =>
                 /\ call[t].lang \in DOMAIN _models
                 /\ result[t].model = _models[call[t].lang]

\* C3: a call for a language outside the discovered set ends in
\* LanguageNotSupportedError (so never in ModelLoadError), whatever is on
\* disk by then.
C3_UndiscoveredIsNotSupported ==
    \A t \in Threads :
        ( /\ pc[t] = "done"
          /\ call[t].op \in {"resolve", "transcribe"}
          /\ call[t].lang \notin _available_languages )
        => result[t].kind = "LanguageNotSupportedError"

\* C3 witness: a language whose directory, with model.pt, appeared after
\* construction was asked for and rejected as not supported.
C3_Witness ==
    \E t \in Threads :
        /\ pc[t] = "done"
        /\ call[t].op = "resolve"
        /\ call[t].lang \notin _available_languages
        /\ HasModelPt(disk[call[t].lang])
        /\ result[t].kind = "LanguageNotSupportedError"

\* the artifact of code c cannot be loaded: model.pt or config.json is
\* missing, or initialising the model throws
Unloadable(c) ==
    \/ ~HasModelPt(disk[c])
    \/ ~HasConfigJson(disk[c])
    \/ ModelEvalRaises(DummyModel(c))

\* C4: resolve(L) for a discovered language whose weights or config file is
\* missing, or whose initialisation throws, ends in ModelLoadError and
\* leaves no cache entry for L.
C4_UnloadableIsModelLoadError ==
    \A t \in Threads :
        ( /\ pc[t] = "done"
          /\ call[t].op = "resolve"
          /\ call[t].lang \in _available_languages
          /\ Unloadable(call[t].lang) )
        => /\ result[t].kind = "ModelLoadError"
           /\ call[t].lang \notin DOMAIN _models

\* C4 witness: a discovered language with model.pt but no config.json was
\* resolved and the call got past the file check into the loading code.
C4_Witness ==
    \E t \in Threads :
        /\ pc[t] = "done"
        /\ call[t].op = "resolve"
        /\ call[t].lang \in _available_languages
        /\ disk[call[t].lang] = "model_only"
        /\ result[t] = Raise("ModelLoadError", "could not load")

\* C5: when the loading code runs for a discovered language whose artifact
\* is complete, resolve returns a handle and the cache holds that handle;
\* and no step ever removes or replaces a cache entry.
C5_SuccessfulLoadIsCached ==
    [][ /\ \A t \in Threads :
              ( /\ pc[t] = "try" /\ pc'[t] = "done"
                /\ call[t].op = "resolve"
                /\ disk[call[t].lang] = "both" )
              => /\ result'[t].kind = "ok"
                 /\ call[t].lang \in DOMAIN _models'
                 /\ _models'[call[t].lang] = result'[t].model
        /\ \A c \in DOMAIN _models :
              c \in DOMAIN _models' /\ _models'[c] = _models[c]
      ]_vars

\* C7: the registry (the cache and the discovered set) changes only in a
\* step in which a call's load succeeds, and a step that ends a call in
\* LanguageNotSupportedError, ModelLoadError or AudioProcessingError changes
\* neither.
C7_FailedCallLeavesRegistry ==
    [][ /\ \A t \in Threads :
              (InProgress(t) /\ pc'[t] = "done" /\ IsFailure(result'[t]))
              => /\ _models' = _models
                 /\ _available_languages' = _available_languages
        /\ (_models' # _models \/ _available_languages' # _available_languages)
              => \E t \in Threads :
                    pc[t] = "try" /\ pc'[t] = "done" /\ result'[t].kind = "ok"
      ]_vars

\* C7 witness: one call has failed with ModelLoadError and another with
\* LanguageNotSupportedError, one of them a transcribe.
C7_Witness ==
    \E t, u \in Threads :
        /\ pc[t] = "done" /\ result[t].kind = "ModelLoadError"
        /\ pc[u] = "done" /\ result[u].kind = "LanguageNotSupportedError"
        /\ call[t].op = "transcribe"


\* the record batch_transcribe puts in the slot of a path that failed
ExpectedErrorRecord(language, audio_path, r) ==
    [language |-> language, audio_path |-> audio_path, error |-> r.detail]

\* C6: batch_transcribe returns (never raises) a list as long as its input
\* in which slot i is what transcribe(paths[i], language) alone gives: its
\* result when it succeeds, the error record {language, audio_path, error}
\* when it fails, whatever happened at the other slots.
C6_BatchSlotPerPath ==
    eres.op = "batch_transcribe" =>
        /\ eres.out.kind = "ok"
        /\ Len(eres.out.value) = Len(eres.audio_paths)
        /\ \A i \in 1..Len(eres.audio_paths) :
              LET r == Transcribe(eres.audio_paths[i], eres.language,
                                  models, languages_metadata)
              IN eres.out.value[i] =
                    IF r.kind = "ok"
                    THEN r.value
                    ELSE ExpectedErrorRecord(eres.language, eres.audio_paths[i], r)

\* C6 witness: the batch [valid, missing, valid] for a loaded language gave
\* results in slots 1 and 3 and an error record in slot 2.
C6_Witness ==
    /\ eres.op = "batch_transcribe"
    /\ eres.audio_paths = <<"valid.wav", "missing.wav", "valid.wav">>
    /\ DictHas(models, eres.language)
    /\ Len(eres.out.value) = 3
    /\ "text" \in DOMAIN eres.out.value[1]
    /\ "error" \in DOMAIN eres.out.value[2]
    /\ eres.out.value[2].audio_path = "missing.wav"
    /\ "text" \in DOMAIN eres.out.value[3]

\* C8: the constructor always gets through _load_models, and once it has,
\* every candidate language that is loadable is in the model map, wherever
\* the languages that failed stood in the list.
C8_LoadAllSurvivesFailures ==
    /\ ephase = "loop" => idx <= Len(candidates)
    /\ ephase = "ready" =>
          \A c \in SeqRange(candidates) : Loadable(c) => DictHas(models, c)

\* C8 witness: the first candidate threw while initialising, the second one
\* is loaded and the service is ready.
C8_Witness ==
    /\ ephase = "ready"
    /\ Len(candidates) = 2
    /\ candidates[1] \in initThrows
    /\ Loadable(candidates[2])
    /\ DictKeys(models) = <<candidates[2]>>

\* C9: is_healthy() is true exactly when a load has succeeded, it is false
\* for a service built over a model directory without languages, and once
\* true it stays true.
C9_HealthyIffLoaded ==
    /\ [](/\ IsHealthy(models) <=> loaded_ok # {}
          /\ eres.op = "is_healthy" => (eres.out.value <=> loaded_ok # {})
          /\ (ephase = "ready" /\ \A c \in Codes : ~HasDir(disk[c]))
                => ~IsHealthy(models))
    /\ [][IsHealthy(models) => IsHealthy(models')]_vars

\* C9 witness: is_healthy() answered true on a service that loaded one
\* language and failed to load another.
C9_Witness ==
    /\ eres.op = "is_healthy"
    /\ eres.out.value = TRUE
    /\ Cardinality(loaded_ok) = 1
    /\ Len(candidates) = 2

\* what get_supported_languages is to return for a loaded code
ExpectedLangInfo(c) ==
    LET k == languages_metadata.entries[c]
        e == EntryFields(k)
        field(f, default) == IF f \in DOMAIN e THEN e[f] ELSE default
    IN IF languages_metadata.shape # "dict" \/ k \in {"absent", "nondict"}
       THEN [code |-> c, name |-> c, family |-> "Unknown", script |-> "Unknown",
             endangerment_level |-> "Unknown", regions |-> <<>>]
       ELSE [code |-> c, name |-> field("name", c), family |-> field("family", "Unknown"),
             script |-> field("script", "Unknown"),
             endangerment_level |-> field("endangerment_level", "Unknown"),
             regions |-> field("regions", <<>>)]

\* C10: get_supported_languages() never raises; a loaded language without a
\* metadata entry is listed with name = code, family = script = "Unknown"
\* and regions = [], one with an entry keeps every field the entry has.
C10_SupportedLanguagesNeverRaises ==
    eres.op = "get_supported_languages" =>
        /\ eres.out.kind = "ok"
        /\ Len(eres.out.value) = Len(models)
        /\ \A i \in 1..Len(models) : eres.out.value[i] = ExpectedLangInfo(models[i][1])


C13_LateFailuresAreAudioProcessingError ==
    (eres.op = "transcribe" /\ DictHas(models, eres.language))
    => /\ eres.out.kind \in {"ok", "AudioProcessingError"}
       /\ eres.audio_path # "valid.wav" => eres.out.kind = "AudioProcessingError"


\* the constructor of the eager service is still running
Constructing == ephase \in {"metadata", "load_models", "loop"}

\* C14: with metadata.json missing or not JSON the metadata mapping is the
\* empty dict; with models_dir missing and no language enabled no language
\* is a candidate and none is loaded; the constructor always has a next step
\* until the service is built; and in both cases get_supported_languages,
\* is_healthy and get_stats of the built service return without raising.
C14_ConstructionSurvivesMissingFiles ==
    /\ (metaFile.kind \in {"missing", "unparsable"} /\ ephase \notin {"none", "metadata"})
          => languages_metadata = [shape |-> "dict", entries |-> NoEntries]
    /\ (~modelsDirExists /\ enabled_languages = <<>> /\ ephase \in {"loop", "ready"})
          => candidates = <<>> /\ models = <<>> /\ ephase = "ready"
    /\ Constructing => ENABLED (LoadMetadataStep \/ LoadModelsStart \/ LoadModelStep)
    /\ ( /\ ~modelsDirExists \/ metaFile.kind \in {"missing", "unparsable"}
         /\ ephase = "ready"
         /\ eres.op \in {"get_supported_languages", "is_healthy", "get_stats"} )
          => eres.out.kind = "ok"

\* C14 witness: a service built without models_dir and with a metadata.json
\* that is not JSON has answered get_stats with no model loaded.
C14_Witness ==
    /\ ~modelsDirExists
    /\ metaFile.kind = "unparsable"
    /\ ephase = "ready"
    /\ eres.op = "get_stats"
    /\ eres.out.kind = "ok"
    /\ eres.out.value.models_loaded = 0


\* C15: a transcribe call that succeeds returns a confidence between 0 and
\* 1 (0 and 1000 thousandths) and the language code it was asked for; so
\* does every successful slot of a batch.
C15_ConfidenceInUnitInterval ==
    /\ (eres.op = "transcribe" /\ eres.out.kind = "ok")
          => /\ eres.out.value.confidence \in 0..1000
             /\ eres.out.value.language = eres.language
    /\ eres.op = "batch_transcribe"
          => \A i \in 1..Len(eres.out.value) :
                "confidence" \in DOMAIN eres.out.value[i]
                => /\ eres.out.value[i].confidence \in 0..1000
                   /\ eres.out.value[i].language = eres.language

\* C15 witness: a transcription succeeded with a confidence strictly
\* between 0 and 1.
C15_Witness ==
    /\ eres.op = "transcribe"
    /\ eres.out.kind = "ok"
    /\ eres.out.value.confidence \in 1..999
    /\ eres.out.value.language = eres.language


\* the languages _load_models is to try: the enabled ones when any is
\* enabled, otherwise the subdirectories of models_dir
CandidateSet ==
    IF enabled_languages # <<>>
    THEN SeqRange(enabled_languages)
    ELSE {c \in Codes : modelsDirExists /\ HasDir(disk[c])}

\* C16: once the constructor is through, the loaded languages are exactly
\* the candidates whose model.pt and config.json both exist and whose
\* initialisation did not throw; with no language enabled and no models_dir
\* nothing is loaded.
C16_LoadedAreLoadableCandidates ==
    ephase = "ready"
    => /\ SeqRange(DictKeys(models)) = {c \in CandidateSet : Loadable(c)}
       /\ (enabled_languages = <<>> /\ ~modelsDirExists) => models = <<>>

\* C16 witness: of the enabled languages one was loaded and one, whose
\* directory lacks one of the two files, was not.
C16_Witness ==
    /\ ephase = "ready"
    /\ enabled_languages # <<>>
    /\ \E c, d \in SeqRange(enabled_languages) :
          /\ DictHas(models, c)
          /\ disk[d] \in {"model_only", "config_only"}
          /\ ~DictHas(models, d)


\* C17: in every state of the lazy service every language the cache holds
\* is in the list of languages found at construction.
C17_CacheWithinDiscovered ==
    DOMAIN _models \subseteq _available_languages

\* C17 witness: a transcribe for a language that was not found at
\* construction, but whose directory now holds both files, has been turned
\* down while another call is inside the loading code, and the cache does
\* not hold that language.
C17_Witness ==
    \E t, u \in Threads :
        /\ pc[t] = "done"
        /\ call[t].op = "transcribe"
        /\ call[t].lang \notin _available_languages
        /\ disk[call[t].lang] = "both"
        /\ result[t].kind = "LanguageNotSupportedError"
        /\ call[t].lang \notin DOMAIN _models
        /\ pc[u] = "try"


\* C18: no step of the lazy service changes the list of languages found at
\* construction, and get_supported_languages returns that list; a language
\* that is not in it is turned down with LanguageNotSupportedError also when
\* its directory is on disk by now, and a call for a language that is in it
\* never ends in LanguageNotSupportedError, also when its directory is gone:
\* it then fails with ModelLoadError.
C18_DiscoveredSetIsFrozen ==
    /\ [][_available_languages' = _available_languages]_vars
    /\ [](\A t \in Threads :
            pc[t] = "done" =>
               /\ call[t].op = "get_supported_languages"
                     => result[t] = ReturnLanguages(_available_languages)
               /\ ( /\ call[t].op \in {"resolve", "transcribe"}
                    /\ call[t].lang \notin _available_languages
                    /\ HasDir(disk[call[t].lang]) )
                     => result[t].kind = "LanguageNotSupportedError"
               /\ ( /\ call[t].op \in {"resolve", "transcribe"}
                    /\ call[t].lang \in _available_languages
                    /\ ~HasDir(disk[call[t].lang]) )
                     => result[t].kind = "ModelLoadError")

\* C18 witness: the directory of a discovered language was removed and the
\* resolve that followed failed on the missing model.pt, while
\* get_supported_languages has returned a list that is no longer what is on
\* disk.
C18_Witness ==
    \E t, u \in Threads :
        /\ pc[t] = "done"
        /\ call[t].op = "resolve"
        /\ call[t].lang \in _available_languages
        /\ ~HasDir(disk[call[t].lang])
        /\ result[t] = Raise("ModelLoadError", "model file not found")
        /\ pc[u] = "done"
        /\ call[u].op = "get_supported_languages"
        /\ result[u].languages # FindAvailableLanguages(disk, modelsDirExists)


\* C19: a step that ends a call in ModelLoadError leaves the language out of
\* the cache; a later resolve of that language (one that started after an
\* earlier call for it had returned) that finds no cache entry goes on to the
\* checks and the loading code again; and when that later resolve reaches
\* the end of the loading code it returns a handle if model.pt and
\* config.json are both there by then, and ends in ModelLoadError if not.
C19_FailedLoadIsRetried ==
    [][ \A t \in Threads :
          /\ (InProgress(t) /\ pc'[t] = "done" /\ result'[t].kind = "ModelLoadError")
                => call[t].lang \notin DOMAIN _models'
          /\ (pc[t] = "l37" /\ ~inWave[t] /\ call[t].lang \notin DOMAIN _models)
                => pc'[t] \in {"l37", "l40"}
          /\ ( /\ pc[t] = "try" /\ pc'[t] = "done"
               /\ call[t].op = "resolve"
               /\ ~inWave[t] )
                => IF disk[call[t].lang] = "both"
                   THEN /\ result'[t].kind = "ok"
                        /\ call[t].lang \in DOMAIN _models'
                   ELSE result'[t].kind = "ModelLoadError"
      ]_vars


\* C20: once the eager service is built no step changes self.models, and in
\* every such state get_stats().models_loaded is the length of
\* get_stats().supported_languages, get_supported_languages() returns that
\* many entries, one per loaded code and no code twice, and is_healthy() is
\* true exactly when that number is above zero.
C20_LoadedMapFrozenAndViewsAgree ==
    /\ [][ephase = "ready" => models' = models]_vars
    /\ [](ephase = "ready" =>
            LET stats == GetStats(models)
                langs == GetSupportedLanguages(models, languages_metadata)
            IN /\ stats.models_loaded = Len(stats.supported_languages)
               /\ langs.kind = "ok"
               /\ Len(langs.value) = stats.models_loaded
               /\ \A i \in 1..Len(langs.value) :
                     langs.value[i].code = stats.supported_languages[i]
               /\ \A i, j \in 1..Len(langs.value) :
                     i # j => langs.value[i].code # langs.value[j].code
               /\ IsHealthy(models) <=> stats.models_loaded > 0)

====
